---------------------------- MODULE Spec2Model ----------------------------
(***************************************************************************)
(* The skill gateway of K-Oz/skillset-example: the HTTP handlers Loripsum  *)
(* and User (package handlers), the JSON decoding of the lorem-ipsum       *)
(* options, the construction of the upstream path, the upstream call and   *)
(* the relay of its answer.                                                *)
(*                                                                         *)
(* One handler invocation h owns req[h] (the inbound request), w[h] (its   *)
(* http.ResponseWriter), params[h], ctx[h] and call[h] (the outbound       *)
(* request and what the upstream did with it).                             *)
(***************************************************************************)
EXTENDS Integers, Sequences, FiniteSets, TLC

VARIABLES
    req,      \* req[h]: the inbound *http.Request: skill route, method, body
    pc,       \* pc[h]: where handler h is: start, await (client.Do), copy (io.Copy), done
    params,   \* params[h]: the LoripsumParams the decoder filled
    w,        \* w[h]: the response as the caller sees it
    ctx,      \* ctx[h]: the context.WithTimeout context: none, live, canceled, deadline
    call,     \* call[h]: the outbound request and the upstream's answer
    ncalls,   \* ncalls[h]: how many times client.Do was entered for request h
    inbound,  \* inbound[h]: the caller's connection: open or gone
    httpClientCreator,  \* the package variable: which client the factory returns
    test,     \* the test function that is running (handlers_internal_test), if any
    server    \* the process: main, run and the http.Server it configures

vars == <<req, pc, params, w, ctx, call, ncalls, inbound, httpClientCreator, test, server>>

\* What a handler invocation owns, and what belongs to the package and its tests.
hvars == <<req, pc, params, w, ctx, call, ncalls, inbound>>
tvars == <<httpClientCreator, test, server>>

Handlers == DOMAIN pc

---------------------------------------------------------------------------
(* Bounds of the model.                                                    *)

\* number_of_paragraphs ranges over -MaxCount .. MaxCount
MaxCount == 12
\* an upstream body is at most MaxBody chunks long
MaxBody == 2

---------------------------------------------------------------------------
(* net/http status codes used by the handlers.                             *)

StatusOK == 200
StatusBadRequest == 400
StatusMethodNotAllowed == 405
StatusInternalServerError == 500

---------------------------------------------------------------------------
(* JSON values as encoding/json sees them.  A number literal is an "int"   *)
(* token (an integer literal within the range of Go's int), a "bigint"     *)
(* token (an integer literal outside that range) or a "float" token (a     *)
(* literal with a fraction or an exponent).                                *)

JVal(t, n, s, b) == [t |-> t, n |-> n, s |-> s, b |-> b]
JInt(n)  == JVal("int", n, "", FALSE)
JStr(s)  == JVal("string", 0, s, FALSE)
JBool(b) == JVal("bool", 0, "", b)
JNull    == JVal("null", 0, "", FALSE)
JFloat   == JVal("float", 0, "", FALSE)
JBig     == JVal("bigint", 0, "", FALSE)
JArray   == JVal("array", 0, "", FALSE)
JObject  == JVal("object", 0, "", FALSE)
Absent   == JVal("absent", 0, "", FALSE)

Member(k, v) == [k |-> k, v |-> v]

\* The struct tags of LoripsumParams, in declaration order.
FieldOrder ==
    << "number_of_paragraphs", "paragraph_length", "decorate", "link",
       "unordered_lists", "numbered_lists", "description_lists",
       "blockquotes", "code", "headers", "all_caps", "prude" >>

FlagTags ==
    { "decorate", "link", "unordered_lists", "numbered_lists",
      "description_lists", "blockquotes", "code", "headers", "all_caps",
      "prude" }

\* json tag -> Go field
JSONTag ==
    [ number_of_paragraphs |-> "NumberOfParagraphs",
      paragraph_length     |-> "ParagraphLength",
      decorate             |-> "Decorate",
      link                 |-> "Link",
      unordered_lists      |-> "UnorderedLists",
      numbered_lists       |-> "NumberedLists",
      description_lists    |-> "DescriptionLists",
      blockquotes          |-> "Blockquotes",
      code                 |-> "Code",
      headers              |-> "Headers",
      all_caps             |-> "AllCaps",
      prude                |-> "Prude" ]

\* Go field -> kind of the field
GoKind ==
    [ NumberOfParagraphs |-> "int",
      ParagraphLength    |-> "string",
      Decorate           |-> "bool",
      Link               |-> "bool",
      UnorderedLists     |-> "bool",
      NumberedLists      |-> "bool",
      DescriptionLists   |-> "bool",
      Blockquotes        |-> "bool",
      Code               |-> "bool",
      Headers            |-> "bool",
      AllCaps            |-> "bool",
      Prude              |-> "bool" ]

\* The zero value &LoripsumParams{} the handler hands to the decoder.
LoripsumParams ==
    [ NumberOfParagraphs |-> 0,
      ParagraphLength    |-> "",
      Decorate           |-> FALSE,
      Link               |-> FALSE,
      UnorderedLists     |-> FALSE,
      NumberedLists      |-> FALSE,
      DescriptionLists   |-> FALSE,
      Blockquotes        |-> FALSE,
      Code               |-> FALSE,
      Headers            |-> FALSE,
      AllCaps            |-> FALSE,
      Prude              |-> FALSE ]

\* encoding/json matches an object key to a field by its tag, exactly or
\* under case folding.  The keys of the model that differ from a tag only
\* by case are folded here.
EqualFold(k) ==
    CASE k = "Number_Of_Paragraphs" -> "number_of_paragraphs"
      [] k = "PRUDE"                -> "prude"
      [] OTHER                      -> k

\* The Go field an object key is stored into, "" when the struct has none
\* (unknown keys are skipped: the decoder does not DisallowUnknownFields).
FieldFor(k) ==
    IF EqualFold(k) \in DOMAIN JSONTag THEN JSONTag[EqualFold(k)] ELSE ""

\* Mutant: a count outside 1..10 is reported as an error like a wrong kind.
StoreValueStrict(st, f, v) ==
    CASE v.t = "null" -> st
      [] GoKind[f] = "int" /\ v.t = "int" /\ v.n \in 0..10 ->
            [st EXCEPT !.params[f] = v.n]
      [] GoKind[f] = "string" /\ v.t = "string" -> [st EXCEPT !.params[f] = v.s]
      [] GoKind[f] = "bool" /\ v.t = "bool" -> [st EXCEPT !.params[f] = v.b]
      [] OTHER -> [st EXCEPT !.err = TRUE]

\* Storing one JSON value into field f: null leaves the field alone, a value
\* of the field's kind is stored, anything else (a string or a bool for the
\* int, a fraction, an integer literal that overflows, an array, ...) is an
\* UnmarshalTypeError, which the decoder remembers while it goes on.
StoreValue(st, f, v) ==
    CASE v.t = "null" -> st
      [] GoKind[f] = "int" /\ v.t = "int" -> [st EXCEPT !.params[f] = v.n]
      [] GoKind[f] = "string" /\ v.t = "string" -> [st EXCEPT !.params[f] = v.s]
      [] GoKind[f] = "bool" /\ v.t = "bool" -> [st EXCEPT !.params[f] = v.b]
      [] OTHER -> [st EXCEPT !.err = TRUE]

StoreMember(st, m) ==
    IF FieldFor(m.k) = "" THEN st ELSE StoreValue(st, FieldFor(m.k), m.v)

RECURSIVE DecodeMembers(_, _)
\* The members of the object are stored in the order they are written, so
\* the last of two members with one key wins.
DecodeMembers(st, ms) ==
    IF ms = << >> THEN st
    ELSE DecodeMembers(StoreMember(st, Head(ms)), Tail(ms))

\* json.NewDecoder(r.Body).Decode(params): reads the FIRST JSON value of the
\* body and stores it.  No byte: io.EOF.  A first value that is not JSON:
\* SyntaxError.  A first value that is no object (an array, a string, a
\* number, a bool): UnmarshalTypeError.  null: nothing is stored.  What
\* follows the first value (body.trailing) is never read.
\* Mutant: a body with nothing in it decodes to the zero parameters.
DecodeEmptyOK(body) ==
    CASE body.kind \in {"malformed", "scalar"} ->
            [err |-> TRUE, params |-> LoripsumParams]
      [] body.kind \in {"null", "empty"} ->
            [err |-> FALSE, params |-> LoripsumParams]
      [] body.kind = "object" ->
            DecodeMembers([err |-> FALSE, params |-> LoripsumParams],
                          body.members)

Decode(body) ==
    CASE body.kind \in {"empty", "malformed", "scalar"} ->
            [err |-> TRUE, params |-> LoripsumParams]
      [] body.kind = "null" ->
            [err |-> FALSE, params |-> LoripsumParams]
      [] body.kind = "object" ->
            DecodeMembers([err |-> FALSE, params |-> LoripsumParams],
                          body.members)

---------------------------------------------------------------------------
(* The upstream path, a sequence of segments.                              *)

\* path.Join(p, elem): an empty element is dropped; the segments of the
\* handler hold no slash and no dot, so path.Clean changes nothing.
PathJoin(p, elem) == IF elem = "" THEN p ELSE Append(p, elem)

Digit(d) ==
    CASE d = 0 -> "0" [] d = 1 -> "1" [] d = 2 -> "2" [] d = 3 -> "3"
      [] d = 4 -> "4" [] d = 5 -> "5" [] d = 6 -> "6" [] d = 7 -> "7"
      [] d = 8 -> "8" [] d = 9 -> "9"

RECURSIVE Sprintf(_)
\* fmt.Sprintf("%v", n) for n >= 0: the decimal numeral of n.
Sprintf(n) == IF n < 10 THEN Digit(n) ELSE Sprintf(n \div 10) \o Digit(n % 10)

\* Mutant: zero is clamped like a negative count instead of being left out.
CountSegmentClampZero(p, prm) ==
    IF prm.NumberOfParagraphs <= 0 THEN PathJoin(p, "1")
    ELSE IF prm.NumberOfParagraphs > 10 THEN PathJoin(p, "10")
    ELSE PathJoin(p, Sprintf(prm.NumberOfParagraphs))

\* Mutant: off by one at the upper limit.
CountSegmentOffByOne(p, prm) ==
    IF prm.NumberOfParagraphs # 0
    THEN IF prm.NumberOfParagraphs < 0 THEN PathJoin(p, "1")
         ELSE IF prm.NumberOfParagraphs >= 10 THEN PathJoin(p, "9")
         ELSE PathJoin(p, Sprintf(prm.NumberOfParagraphs))
    ELSE p

CountSegment(p, prm) ==
    IF prm.NumberOfParagraphs # 0
    THEN IF prm.NumberOfParagraphs < 0 THEN PathJoin(p, "1")
         ELSE IF prm.NumberOfParagraphs > 10 THEN PathJoin(p, "10")
         ELSE PathJoin(p, Sprintf(prm.NumberOfParagraphs))
    ELSE p

\* Mutant: any non-empty length is passed on.
LengthSegmentAny(p, prm) == PathJoin(p, prm.ParagraphLength)

\* Mutant: every length that is not empty is joined.
LengthSegmentNonEmpty(p, prm) ==
    IF prm.ParagraphLength # "" THEN PathJoin(p, prm.ParagraphLength) ELSE p

LengthSegment(p, prm) ==
    IF \/ prm.ParagraphLength = "short"
       \/ prm.ParagraphLength = "medium"
       \/ prm.ParagraphLength = "long"
       \/ prm.ParagraphLength = "verylong"
    THEN PathJoin(p, prm.ParagraphLength)
    ELSE p

Flag(p, on, seg) == IF on THEN PathJoin(p, seg) ELSE p

\* Mutant: ol and ul change places.
FlagSegmentsSwapped(p, prm) ==
    LET p1  == Flag(p,  prm.Decorate,         "decorate")
        p2  == Flag(p1, prm.Link,             "link")
        p3  == Flag(p2, prm.NumberedLists,    "ol")
        p4  == Flag(p3, prm.UnorderedLists,   "ul")
        p5  == Flag(p4, prm.DescriptionLists, "dl")
        p6  == Flag(p5, prm.Blockquotes,      "bq")
        p7  == Flag(p6, prm.Code,             "code")
        p8  == Flag(p7, prm.Headers,          "headers")
        p9  == Flag(p8, prm.AllCaps,          "allcaps")
    IN  Flag(p9, prm.Prude, "prude")

FlagSegments(p, prm) ==
    LET p1  == Flag(p,  prm.Decorate,         "decorate")
        p2  == Flag(p1, prm.Link,             "link")
        p3  == Flag(p2, prm.UnorderedLists,   "ul")
        p4  == Flag(p3, prm.NumberedLists,    "ol")
        p5  == Flag(p4, prm.DescriptionLists, "dl")
        p6  == Flag(p5, prm.Blockquotes,      "bq")
        p7  == Flag(p6, prm.Code,             "code")
        p8  == Flag(p7, prm.Headers,          "headers")
        p9  == Flag(p8, prm.AllCaps,          "allcaps")
    IN  Flag(p9, prm.Prude, "prude")

\* Mutant: the length is joined before the count.
BuildPathLengthFirst(prm) ==
    FlagSegments(CountSegment(LengthSegment(<< "api" >>, prm), prm), prm)

\* p := "api", then the count, the length and the flags.
BuildPath(prm) ==
    FlagSegments(LengthSegment(CountSegment(<< "api" >>, prm), prm), prm)

\* u, _ := url.Parse("https://loripsum.net"); u.Path = p
LoripsumURL(p) == [scheme |-> "https", host |-> "loripsum.net", path |-> p]

\* "https://randomuser.me/api"
UserURL == [scheme |-> "https", host |-> "randomuser.me", path |-> << "api" >>]

NoURL == [scheme |-> "", host |-> "", path |-> << >>]

---------------------------------------------------------------------------
(* The http.ResponseWriter, as the caller sees the response.               *)

\* Location is set by the router's redirects only.
HeaderNames ==
    { "Content-Type", "X-Content-Type-Options", "Access-Control-Allow-Origin",
      "Access-Control-Allow-Methods", "Access-Control-Allow-Headers", "Location" }

\* One write to the response body: plain bytes, or the JSON encoding of an
\* ErrorResponse.
Text(t) == [json |-> FALSE, text |-> t, error |-> "", message |-> "", code |-> 0]

NewWriter ==
    [ wroteHeader |-> FALSE, status |-> 0,
      header |-> [k \in HeaderNames |-> ""], body |-> << >> ]

\* w.Header().Set(k, v): reaches the caller only before the header is written.
HeaderSet(rw, k, v) ==
    IF rw.wroteHeader THEN rw ELSE [rw EXCEPT !.header[k] = v]

\* w.WriteHeader(code): the first call fixes the status.
WriteHeader(rw, code) ==
    IF rw.wroteHeader THEN rw
    ELSE [rw EXCEPT !.wroteHeader = TRUE, !.status = code]

\* w.Write(data): writes the header with 200 when none was written yet.
Write(rw, data) ==
    LET rw1 == WriteHeader(rw, StatusOK)
    IN  [rw1 EXCEPT !.body = @ \o data]

\* http.Error(w, msg, code): a text/plain response, the message and a newline.
\* Mutant: error responses carry the cross-origin header too.
HttpErrorCORS(rw, msg, code) ==
    LET rw0 == HeaderSet(rw, "Access-Control-Allow-Origin", "*")
        rw1 == HeaderSet(rw0, "Content-Type", "text/plain; charset=utf-8")
        rw2 == HeaderSet(rw1, "X-Content-Type-Options", "nosniff")
    IN  Write(WriteHeader(rw2, code), << Text(msg), Text("\n") >>)

HttpError(rw, msg, code) ==
    LET rw1 == HeaderSet(rw, "Content-Type", "text/plain; charset=utf-8")
        rw2 == HeaderSet(rw1, "X-Content-Type-Options", "nosniff")
    IN  Write(WriteHeader(rw2, code), << Text(msg), Text("\n") >>)

\* The server ends the response when the handler returns: status 200 when
\* the handler wrote none.
FinishRequest(rw) == WriteHeader(rw, StatusOK)

\* RespondWithError (utils.go): the JSON ErrorResponse {error, message, code}.
\* http.StatusText gives the "error" field.
StatusText(code) ==
    CASE code = StatusBadRequest -> "Bad Request"
      [] code = StatusMethodNotAllowed -> "Method Not Allowed"
      [] code = StatusInternalServerError -> "Internal Server Error"
      [] code = StatusOK -> "OK"
      [] OTHER -> ""

ErrorResponse(message, code) ==
    [json |-> TRUE, text |-> "", error |-> StatusText(code),
     message |-> message, code |-> code]

RespondWithError(rw, message, code) ==
    LET rw1 == HeaderSet(rw, "Content-Type", "application/json")
    IN  Write(WriteHeader(rw1, code), << ErrorResponse(message, code) >>)

---------------------------------------------------------------------------
(* The outbound call.                                                      *)

\* An http.Client: its Timeout in seconds (0: none) and its Transport.
Client(timeout, transport) == [timeout |-> timeout, transport |-> transport]

NoCall ==
    [ state |-> "none", method |-> "", url |-> NoURL, client |-> Client(0, ""),
      status |-> 0,
      ctype |-> "", body |-> << >>, read |-> 0, closed |-> FALSE ]

\* client := &http.Client{Timeout: 5 * time.Second}: a client of the handler's
\* own, with the default transport; httpClientCreator is not consulted.
HandlerClient == Client(5, "default")

\* http.NewRequestWithContext(ctx, GET, url, nil) handed to client.Do
NewCall(u) ==
    [ state |-> "inflight", method |-> "GET", url |-> u, client |-> HandlerClient,
      status |-> 0, ctype |-> "", body |-> << >>, read |-> 0, closed |-> FALSE ]

---------------------------------------------------------------------------
(* The environment of a handler: the upstream and the caller.              *)

UpstreamStatuses == {StatusOK, 404, StatusInternalServerError, 503}
UpstreamTypes == {"text/html", "application/json"}
Chunks == {"u1", "u2"}

RECURSIVE SeqsUpTo(_, _)
SeqsUpTo(S, n) ==
    IF n = 0 THEN {<< >>}
    ELSE LET shorter == SeqsUpTo(S, n - 1)
         IN  shorter \cup {Append(q, x) : q \in {r \in shorter : Len(r) = n - 1}, x \in S}

UpstreamBodies == SeqsUpTo(Chunks, MaxBody)

\* Cancelling the context aborts a call that is still in flight.
Abort(c) == IF c.state = "inflight" THEN [c EXCEPT !.state = "aborted"] ELSE c

Answer(st, ct, b) == [status |-> st, ctype |-> ct, body |-> b]

UpstreamAnswers ==
    {Answer(st, ct, b) : st \in UpstreamStatuses, ct \in UpstreamTypes, b \in UpstreamBodies}

\* The upstream answers with one of the answers A: client.Do returns once
\* status and headers are in; the body is read afterwards.
Responds(h, A) ==
    /\ pc[h] = "await"
    /\ call[h].state = "inflight"
    /\ \E a \in A :
          call' = [call EXCEPT ![h] =
                      [@ EXCEPT !.state = "responded", !.status = a.status,
                                !.ctype = a.ctype, !.body = a.body]]
    /\ UNCHANGED <<req, pc, params, w, ctx, ncalls, inbound>>
    /\ UNCHANGED tvars

UpstreamResponds(h) == Responds(h, UpstreamAnswers)

\* The transport fails (no route, refused, reset before the status line).
UpstreamFails(h) ==
    /\ pc[h] = "await"
    /\ call[h].state = "inflight"
    /\ call' = [call EXCEPT ![h] = [@ EXCEPT !.state = "error"]]
    /\ UNCHANGED <<req, pc, params, w, ctx, ncalls, inbound>>
    /\ UNCHANGED tvars

\* The 5 seconds of context.WithTimeout (and of http.Client.Timeout) run out.
DeadlineExpires(h) ==
    /\ pc[h] \in {"await", "copy"}
    /\ ctx[h] = "live"
    /\ ctx' = [ctx EXCEPT ![h] = "deadline"]
    /\ call' = [call EXCEPT ![h] = Abort(@)]
    /\ UNCHANGED <<req, pc, params, w, ncalls, inbound>>
    /\ UNCHANGED tvars

\* Mutant: the deadline context is made from context.Background().
ContextParentBackground == "context.Background()"

\* context.WithTimeout(r.Context(), ...): the parent of the deadline context.
ContextParent == "r.Context()"

\* The caller goes away: r.Context() is cancelled, and with it every context
\* derived from it, and the call made with such a context.
ClientCancels(h) ==
    /\ pc[h] \in {"start", "await", "copy"}
    /\ inbound[h] = "open"
    /\ inbound' = [inbound EXCEPT ![h] = "gone"]
    /\ IF ContextParent = "r.Context()"
       THEN /\ ctx' = [ctx EXCEPT ![h] = IF @ = "live" THEN "canceled" ELSE @]
            /\ call' = [call EXCEPT ![h] = Abort(@)]
       ELSE UNCHANGED <<ctx, call>>
    /\ UNCHANGED <<req, pc, params, w, ncalls>>
    /\ UNCHANGED tvars

\* The upstream connection breaks while the body is being transferred.
BodyBreaks(h) ==
    /\ pc[h] = "copy"
    /\ call[h].state = "responded"
    /\ call[h].read < Len(call[h].body)
    /\ call' = [call EXCEPT ![h] = [@ EXCEPT !.state = "broken"]]
    /\ UNCHANGED <<req, pc, params, w, ctx, ncalls, inbound>>
    /\ UNCHANGED tvars

---------------------------------------------------------------------------
(* The handlers.                                                           *)

\* The handler returns before it made a context: the server ends the response.
Return(h, rw) ==
    /\ w' = [w EXCEPT ![h] = FinishRequest(rw)]
    /\ pc' = [pc EXCEPT ![h] = "done"]

\* The handler returns after context.WithTimeout: the deferred cancel() runs,
\* and the deferred resp.Body.Close() when client.Do gave a response.
\* Mutant: the handler returns without its deferred calls.
ReturnNoDefer(h, rw) ==
    /\ Return(h, rw)
    /\ UNCHANGED <<ctx, call>>

ReturnDeferred(h, rw) ==
    /\ Return(h, rw)
    /\ ctx' = [ctx EXCEPT ![h] = IF @ = "live" THEN "canceled" ELSE @]
    /\ call' = [call EXCEPT ![h] =
                  IF @.state \in {"responded", "broken"}
                  THEN [@ EXCEPT !.closed = TRUE] ELSE @]

\* ctx, cancel := context.WithTimeout(r.Context(), 5*time.Second); the request
\* is made and client.Do(req) is entered.  A context derived from a cancelled
\* one is cancelled from the start, and client.Do then fails without sending.
\* Mutant: the call is made without a deadline (and without the caller's context).
StartCallNoDeadline(h, u) ==
    /\ ctx' = [ctx EXCEPT ![h] = "none"]
    /\ call' = [call EXCEPT ![h] = NewCall(u)]
    /\ ncalls' = [ncalls EXCEPT ![h] = @ + 1]
    /\ pc' = [pc EXCEPT ![h] = "await"]

StartCall(h, u) ==
    LET dead == inbound[h] = "gone" /\ ContextParent = "r.Context()"
    IN  /\ ctx' = [ctx EXCEPT ![h] = IF dead THEN "canceled" ELSE "live"]
        /\ call' = [call EXCEPT ![h] = IF dead THEN Abort(NewCall(u)) ELSE NewCall(u)]
        /\ ncalls' = [ncalls EXCEPT ![h] = @ + 1]
        /\ pc' = [pc EXCEPT ![h] = "await"]

\* Mutant: the guard also lets GET through.
LoripsumMethodAllowedGet(m) == m = "POST" \/ m = "OPTIONS" \/ m = "GET"

\* if r.Method != http.MethodPost && r.Method != http.MethodOptions { 405 }
LoripsumMethodAllowed(m) == m = "POST" \/ m = "OPTIONS"

\* Mutant: the preflight answer of another skill.
LoripsumPreflightGet(rw) ==
    LET rw1 == HeaderSet(rw, "Access-Control-Allow-Origin", "*")
        rw2 == HeaderSet(rw1, "Access-Control-Allow-Methods", "GET, OPTIONS")
        rw3 == HeaderSet(rw2, "Access-Control-Allow-Headers", "Content-Type")
    IN  WriteHeader(rw3, StatusOK)

LoripsumPreflight(rw) ==
    LET rw1 == HeaderSet(rw, "Access-Control-Allow-Origin", "*")
        rw2 == HeaderSet(rw1, "Access-Control-Allow-Methods", "POST, OPTIONS")
        rw3 == HeaderSet(rw2, "Access-Control-Allow-Headers", "Content-Type")
    IN  WriteHeader(rw3, StatusOK)

\* Loripsum, from its entry to client.Do(req).
\* Mutant: the body is decoded before the method is looked at.
LoripsumDecodeFirst(h) ==
    /\ pc[h] = "start"
    /\ req[h].skill = "lorem"
    /\ LET d == Decode(req[h].body)
       IN  /\ params' = [params EXCEPT ![h] = d.params]
           /\ IF d.err
              THEN /\ Return(h, HttpError(w[h], "Invalid request body", StatusBadRequest))
                   /\ UNCHANGED <<ctx, call, ncalls>>
              ELSE IF ~LoripsumMethodAllowed(req[h].method)
              THEN /\ Return(h, HttpError(w[h], "Method not allowed",
                                          StatusMethodNotAllowed))
                   /\ UNCHANGED <<ctx, call, ncalls>>
              ELSE IF req[h].method = "OPTIONS"
              THEN /\ Return(h, LoripsumPreflight(w[h]))
                   /\ UNCHANGED <<ctx, call, ncalls>>
              ELSE /\ StartCall(h, LoripsumURL(BuildPath(d.params)))
                   /\ UNCHANGED w
    /\ UNCHANGED <<req, inbound>>
    /\ UNCHANGED tvars

Loripsum(h) ==
    /\ pc[h] = "start"
    /\ req[h].skill = "lorem"
    /\ IF ~LoripsumMethodAllowed(req[h].method)
       THEN /\ Return(h, HttpError(w[h], "Method not allowed", StatusMethodNotAllowed))
            /\ UNCHANGED <<params, ctx, call, ncalls>>
       ELSE IF req[h].method = "OPTIONS"
       THEN /\ Return(h, LoripsumPreflight(w[h]))
            /\ UNCHANGED <<params, ctx, call, ncalls>>
       ELSE LET d == Decode(req[h].body)
            IN  /\ params' = [params EXCEPT ![h] = d.params]
                /\ IF d.err
                   THEN /\ Return(h, HttpError(w[h], "Invalid request body", StatusBadRequest))
                        /\ UNCHANGED <<ctx, call, ncalls>>
                   ELSE /\ StartCall(h, LoripsumURL(BuildPath(d.params)))
                        /\ UNCHANGED w
    /\ UNCHANGED <<req, inbound>>
    /\ UNCHANGED tvars

UserMethodAllowed(m) == m = "GET" \/ m = "OPTIONS"

UserPreflight(rw) ==
    LET rw1 == HeaderSet(rw, "Access-Control-Allow-Origin", "*")
        rw2 == HeaderSet(rw1, "Access-Control-Allow-Methods", "GET, OPTIONS")
        rw3 == HeaderSet(rw2, "Access-Control-Allow-Headers", "Content-Type")
    IN  WriteHeader(rw3, StatusOK)

\* User, from its entry to client.Do(req).  The body is never read.
User(h) ==
    /\ pc[h] = "start"
    /\ req[h].skill = "user"
    /\ IF ~UserMethodAllowed(req[h].method)
       THEN /\ Return(h, HttpError(w[h], "Method not allowed", StatusMethodNotAllowed))
            /\ UNCHANGED <<ctx, call, ncalls>>
       ELSE IF req[h].method = "OPTIONS"
       THEN /\ Return(h, UserPreflight(w[h]))
            /\ UNCHANGED <<ctx, call, ncalls>>
       ELSE /\ StartCall(h, UserURL)
            /\ UNCHANGED w
    /\ UNCHANGED <<req, params, inbound>>
    /\ UNCHANGED tvars

\* What each handler says when client.Do fails, and the content type it
\* gives a relayed body.
FetchError(skill) ==
    IF skill = "lorem" THEN "Error fetching lorem ipsum" ELSE "Error fetching user data"

RelayType(skill) ==
    IF skill = "lorem" THEN "text/html; charset=utf-8" ELSE "application/json"

\* Mutant: a deadline that expired is reported as 504 Gateway Timeout.
FetchFailedTimeout(rw, skill, why) ==
    HttpError(rw, FetchError(skill),
              IF why = "deadline" THEN 504 ELSE StatusInternalServerError)

\* if err != nil { http.Error(w, "Error fetching ...", 500) }: whatever made
\* client.Do fail (why: the state of the context).
FetchFailed(rw, skill, why) ==
    HttpError(rw, FetchError(skill), StatusInternalServerError)

\* Mutant: the upstream's status and body are passed on.
StatusFailedForward(rw, c) ==
    Write(WriteHeader(rw, c.status), [i \in 1..Len(c.body) |-> Text(c.body[i])])

\* if resp.StatusCode != http.StatusOK { http.Error(w, "Upstream API error", 500) }
StatusFailed(rw, c) ==
    HttpError(rw, "Upstream API error", StatusInternalServerError)

\* Mutant: the upstream's content type is passed on.
RelayHeadersForward(rw, skill, c) ==
    HeaderSet(HeaderSet(rw, "Content-Type", c.ctype),
              "Access-Control-Allow-Origin", "*")

\* The two headers of the success response.
RelayHeaders(rw, skill, c) ==
    HeaderSet(HeaderSet(rw, "Content-Type", RelayType(skill)),
              "Access-Control-Allow-Origin", "*")

\* Mutant: a call that failed is made once more.
AfterDoRetry(h) ==
    /\ pc[h] = "await"
    /\ call[h].state # "inflight"
    /\ IF call[h].state = "error" /\ ncalls[h] < 2
       THEN /\ call' = [call EXCEPT ![h] = NewCall(@.url)]
            /\ ncalls' = [ncalls EXCEPT ![h] = @ + 1]
            /\ UNCHANGED <<pc, w, ctx>>
       ELSE /\ UNCHANGED ncalls
            /\ IF call[h].state \in {"error", "aborted"}
               THEN ReturnDeferred(h, FetchFailed(w[h], req[h].skill, ctx[h]))
               ELSE IF call[h].status # StatusOK
               THEN ReturnDeferred(h, StatusFailed(w[h], call[h]))
               ELSE /\ w' = [w EXCEPT ![h] = RelayHeaders(@, req[h].skill, call[h])]
                    /\ pc' = [pc EXCEPT ![h] = "copy"]
                    /\ UNCHANGED <<ctx, call>>
    /\ UNCHANGED <<req, params, inbound>>
    /\ UNCHANGED tvars

\* Both handlers, from the return of client.Do to io.Copy.
AfterDo(h) ==
    /\ pc[h] = "await"
    /\ call[h].state # "inflight"
    /\ IF call[h].state \in {"error", "aborted"}
       THEN ReturnDeferred(h, FetchFailed(w[h], req[h].skill, ctx[h]))
       ELSE IF call[h].status # StatusOK
       THEN ReturnDeferred(h, StatusFailed(w[h], call[h]))
       ELSE /\ w' = [w EXCEPT ![h] = RelayHeaders(@, req[h].skill, call[h])]
            /\ pc' = [pc EXCEPT ![h] = "copy"]
            /\ UNCHANGED <<ctx, call>>
    /\ UNCHANGED <<req, params, ncalls, inbound>>
    /\ UNCHANGED tvars

\* io.Copy(w, resp.Body), one read and write at a time: a chunk is relayed,
\* or the body ends and the handler returns, or the read fails (the
\* connection broke, the context ended) and the handler returns with what
\* it has already written.
\* Mutant: the response being relayed is kept in one place for all requests,
\* and the first request that has one supplies it.
CopyShared(h) ==
    LET g == CHOOSE x \in Handlers :
                 /\ call[x].status = StatusOK
                 /\ \A y \in Handlers : call[y].status = StatusOK => x <= y
        resp == call[g].body
    IN  /\ pc[h] = "copy"
        /\ IF call[h].state = "broken" \/ ctx[h] # "live"
           THEN ReturnDeferred(h, w[h])
           ELSE IF call[h].read >= Len(resp)
           THEN ReturnDeferred(h, w[h])
           ELSE /\ w' = [w EXCEPT ![h] = Write(@, << Text(resp[call[h].read + 1]) >>)]
                /\ call' = [call EXCEPT ![h] = [@ EXCEPT !.read = @ + 1]]
                /\ UNCHANGED <<pc, ctx>>
        /\ UNCHANGED <<req, params, ncalls, inbound>>
        /\ UNCHANGED tvars

Copy(h) ==
    /\ pc[h] = "copy"
    /\ IF call[h].state = "broken" \/ ctx[h] # "live"
       THEN ReturnDeferred(h, w[h])
       ELSE IF call[h].read = Len(call[h].body)
       THEN ReturnDeferred(h, w[h])
       ELSE /\ w' = [w EXCEPT ![h] = Write(@, << Text(call[h].body[call[h].read + 1]) >>)]
            /\ call' = [call EXCEPT ![h] = [@ EXCEPT !.read = @ + 1]]
            /\ UNCHANGED <<pc, ctx>>
    /\ UNCHANGED <<req, params, ncalls, inbound>>
    /\ UNCHANGED tvars

---------------------------------------------------------------------------
(* Requests.                                                               *)

Methods == {"GET", "POST", "OPTIONS", "PUT", "DELETE"}

Body(kind, members, trailing) ==
    [kind |-> kind, members |-> members, trailing |-> trailing]

Object(members) == Body("object", members, FALSE)

\* Bodies of every syntactic shape: no byte at all, a first value that is not
\* JSON, null, a value that is no object, objects, and an object with bytes
\* after it that are not JSON.
SmallBodies ==
    { Body("empty", << >>, FALSE),
      Body("malformed", << >>, FALSE),
      Body("null", << >>, FALSE),
      Body("scalar", << >>, FALSE),
      Object(<< >>),
      Object(<< Member("number_of_paragraphs", JInt(2)),
                Member("paragraph_length", JStr("short")) >>),
      Body("object", << Member("number_of_paragraphs", JInt(2)) >>, TRUE),
      Object(<< Member("number_of_paragraphs", JStr("2")) >>),
      Object(<< Member("paragraph_length", JStr("huge")),
                Member("number_of_paragraphs", JInt(MaxCount)) >>) }

Requests ==
    { [skill |-> s, method |-> m, body |-> b] :
        s \in {"lorem", "user"}, m \in Methods, b \in SmallBodies }

\* var httpClientCreator = func() *http.Client { return &http.Client{} }
\* A factory is the client it returns and, for a test's factory, the number of
\* the mock server its transport leads to.
ProductionFactory == [client |-> Client(0, "default"), server |-> 0]

\* No test is running: the handlers serve requests of the server.
NoTest ==
    [pc |-> "none", name |-> "", originalClient |-> ProductionFactory,
     mockServer |-> 0, closed |-> {}, deferred |-> << >>, run |-> 0]

\* os.LookupEnv(key): whether the variable exists, and its value.
Lookup(exists, value) == [exists |-> exists, value |-> value]

\* The handlers are called as they are, with no process in view: nothing has
\* been configured or logged, and nothing has exited.
NoServer ==
    [pc |-> "none", env |-> [PORT |-> Lookup(FALSE, "")], routes |-> << >>,
     Addr |-> "", ReadTimeout |-> 0, WriteTimeout |-> 0, IdleTimeout |-> 0,
     log |-> << >>, exit |-> -1]

InitOf(H, rq) ==
    /\ req = rq
    /\ pc = [h \in H |-> "start"]
    /\ params = [h \in H |-> LoripsumParams]
    /\ w = [h \in H |-> NewWriter]
    /\ ctx = [h \in H |-> "none"]
    /\ call = [h \in H |-> NoCall]
    /\ ncalls = [h \in H |-> 0]
    /\ inbound = [h \in H |-> "open"]
    /\ httpClientCreator = ProductionFactory
    /\ test = NoTest
    /\ server = NoServer

\* One request, of any route, method and body.
Init == \E r \in Requests : InitOf({1}, [h \in {1} |-> r])

Next ==
    \/ \E h \in Handlers : Loripsum(h)
    \/ \E h \in Handlers : User(h)
    \/ \E h \in Handlers : UpstreamResponds(h)
    \/ \E h \in Handlers : UpstreamFails(h)
    \/ \E h \in Handlers : DeadlineExpires(h)
    \/ \E h \in Handlers : ClientCancels(h)
    \/ \E h \in Handlers : BodyBreaks(h)
    \/ \E h \in Handlers : AfterDo(h)
    \/ \E h \in Handlers : Copy(h)

Spec == Init /\ [][Next]_vars

---------------------------------------------------------------------------
(* The lorem-ipsum options: bodies that exercise the decoder and the path  *)
(* construction, each posted twice.                                        *)

Reverse(q) == [i \in 1..Len(q) |-> q[Len(q) + 1 - i]]

\* Another order in which a caller may write the keys.
MixedOrder ==
    << "prude", "number_of_paragraphs", "code", "decorate", "all_caps",
       "paragraph_length", "numbered_lists", "link", "blockquotes",
       "unordered_lists", "headers", "description_lists" >>

\* The object that holds, in the given key order, the keys val does not
\* leave Absent.
Pick(order, val) ==
    SelectSeq([i \in 1..Len(order) |-> Member(order[i], val[order[i]])],
              LAMBDA m : m.v.t # "absent")

\* The flags of T true, the other flags rest, the count c, the length l.
Choice(T, c, l, rest) ==
    [k \in FlagTags \cup {"number_of_paragraphs", "paragraph_length"} |->
        IF k = "number_of_paragraphs" THEN c
        ELSE IF k = "paragraph_length" THEN l
        ELSE IF k \in T THEN JBool(TRUE) ELSE rest]

CountKeys == {"number_of_paragraphs", "Number_Of_Paragraphs"}

CountValues ==
    {JInt(n) : n \in -MaxCount..MaxCount}
        \cup {JNull, JFloat, JBig, JStr("3"), JBool(TRUE), JArray}

LengthStrings ==
    {"short", "medium", "long", "verylong", "", "Short", "huge", "decorate", "10"}

LengthValues == {JStr(x) : x \in LengthStrings} \cup {JNull, JInt(1), JBool(TRUE)}

CountBodies ==
    {Object(<< Member(k, v) >>) : k \in CountKeys, v \in CountValues}
        \cup {Object(<< Member("number_of_paragraphs", v1), Member(k, v2) >>) :
                k \in CountKeys,
                v1 \in {JInt(0), JInt(5), JInt(MaxCount), JNull, JStr("3")},
                v2 \in {JInt(0), JInt(5), JInt(MaxCount), JNull, JStr("3")}}

CountLengthBodies ==
    {Object(<< Member("number_of_paragraphs", JInt(n)),
               Member("paragraph_length", l) >>) :
        n \in -MaxCount..MaxCount, l \in LengthValues}
      \cup
    {Object(<< Member("paragraph_length", l),
               Member("number_of_paragraphs", JInt(n)) >>) :
        n \in -MaxCount..MaxCount, l \in LengthValues}

FlagBodies ==
    {Object(Pick(o, Choice(T, c, l, Absent))) :
        T \in SUBSET FlagTags, c \in {Absent, JInt(3)},
        l \in {Absent, JStr("long")}, o \in {FieldOrder, Reverse(FieldOrder)}}
      \cup
    {Object(Pick(MixedOrder, Choice(T, Absent, Absent, JBool(FALSE)))) :
        T \in SUBSET FlagTags}

AllKeys == FlagTags \cup CountKeys \cup {"paragraph_length", "PRUDE", "extra"}

AllValues ==
    { JInt(0), JInt(1), JStr(""), JStr("long"), JBool(TRUE), JBool(FALSE),
      JNull, JFloat, JBig, JArray, JObject }

TypeBodies == {Object(<< Member(k, v) >>) : k \in AllKeys, v \in AllValues}

URLBodies ==
    SmallBodies \cup CountBodies \cup CountLengthBodies \cup FlagBodies
        \cup TypeBodies

URLRequests == {[skill |-> "lorem", method |-> "POST", body |-> b] : b \in URLBodies}

Twins == {1, 2}

\* Two equal POSTs to /random-lorem-ipsum, handled side by side.
InitURL == \E r \in URLRequests : InitOf(Twins, [h \in Twins |-> r])

NextURL ==
    \/ \E h \in Handlers : Loripsum(h)

SpecURL == InitURL /\ [][NextURL]_vars

---------------------------------------------------------------------------
(* Vocabulary of the properties.                                           *)

Numerals == << "1", "2", "3", "4", "5", "6", "7", "8", "9", "10" >>
NumeralSet == {Numerals[i] : i \in 1..10}
LengthWords == {"short", "medium", "long", "verylong"}
FlagWords ==
    << "decorate", "link", "ul", "ol", "dl", "bq", "code", "headers",
       "allcaps", "prude" >>
FlagKeys ==
    << "decorate", "link", "unordered_lists", "numbered_lists",
       "description_lists", "blockquotes", "code", "headers", "all_caps",
       "prude" >>
FlagWordSet == {FlagWords[i] : i \in 1..10}

Min(a, b) == IF a < b THEN a ELSE b
Max(a, b) == IF a < b THEN b ELSE a

\* Handler h is the lorem-ipsum handler serving a POST.
LoremPost(h) == req[h].skill = "lorem" /\ req[h].method = "POST"

\* Handler h has constructed an upstream URL and entered the upstream call.
Constructed(h) == call[h].state # "none"

UpstreamPath(h) == call[h].url.path

\* The segments of a path that are paragraph counts, flags, or neither
\* (what is left between "api" and the flags is the length segment).
CountPart(p) == SelectSeq(p, LAMBDA x : x \in NumeralSet)
FlagPart(p) == SelectSeq(p, LAMBDA x : x \in FlagWordSet)
LengthPart(p) ==
    SelectSeq(p, LAMBDA x : x \notin NumeralSet \cup FlagWordSet \cup {"api"})

\* The members of an object body that name the field with the given tag.
Named(b, tag) == {i \in 1..Len(b.members) : EqualFold(b.members[i].k) = tag}

\* The body names the field exactly once, with value v.
Sends(b, tag, v) ==
    /\ b.kind = "object"
    /\ \E i \in Named(b, tag) : Named(b, tag) = {i} /\ b.members[i].v = v

\* Every member of the body that names a field holds null or a value of the
\* JSON type of that field.
WellTyped(b) ==
    \A i \in 1..Len(b.members) :
        LET m == b.members[i]
        IN  \/ FieldFor(m.k) = ""
            \/ m.v.t = "null"
            \/ m.v.t = GoKind[FieldFor(m.k)]

\* The whole body is one JSON value.
ValidJSON(b) == b.kind \in {"object", "null", "scalar"} /\ ~b.trailing

---------------------------------------------------------------------------
(* C1..C5, C10: the construction of the upstream path (SpecURL).           *)

\* C1 as stated: for every integer n sent as number_of_paragraphs, the
\* paragraph-count segment of the constructed path is max(1, min(10, n)).
C1_ClampEveryInteger ==
    \A h \in Handlers : \A n \in -MaxCount..MaxCount :
        (LoremPost(h) /\ Constructed(h)
            /\ Sends(req[h].body, "number_of_paragraphs", JInt(n)))
        => CountPart(UpstreamPath(h)) = << Numerals[Max(1, Min(10, n))] >>

\* C1 amended: for every integer n other than 0 (within the range of Go's
\* int) sent as number_of_paragraphs, the constructed path holds exactly one
\* paragraph-count segment, max(1, min(10, n)), right after "api".
C1_ClampNonZero ==
    \A h \in Handlers : \A n \in -MaxCount..MaxCount :
        (LoremPost(h) /\ Constructed(h) /\ n # 0
            /\ Sends(req[h].body, "number_of_paragraphs", JInt(n)))
        => /\ CountPart(UpstreamPath(h)) = << Numerals[Max(1, Min(10, n))] >>
           /\ UpstreamPath(h)[2] = Numerals[Max(1, Min(10, n))]

\* A count above 10 was sent and the path was built with the segment 10.
C1_Witness ==
    \E h \in Handlers :
        /\ LoremPost(h) /\ Constructed(h)
        /\ Sends(req[h].body, "number_of_paragraphs", JInt(MaxCount))
        /\ UpstreamPath(h)[2] = "10"

\* C2: when number_of_paragraphs is absent from the body or is 0, the
\* constructed path has no paragraph-count segment.
C2_NoCountSegment ==
    \A h \in Handlers :
        (LoremPost(h) /\ Constructed(h)
            /\ \/ req[h].body.kind = "object"
                    /\ Named(req[h].body, "number_of_paragraphs") = {}
               \/ Sends(req[h].body, "number_of_paragraphs", JInt(0)))
        => CountPart(UpstreamPath(h)) = << >>

\* A count of 0 was sent next to a length, and the path was built.
C2_Witness ==
    \E h \in Handlers :
        /\ LoremPost(h) /\ Constructed(h)
        /\ Sends(req[h].body, "number_of_paragraphs", JInt(0))
        /\ Sends(req[h].body, "paragraph_length", JStr("long"))
        /\ UpstreamPath(h) = << "api", "long" >>

\* C3: a paragraph_length that is one of short, medium, long, verylong is in
\* the path verbatim as the length segment; for any other string the path
\* has no length segment, and the request is not rejected.
C3_LengthSegment ==
    \A h \in Handlers : \A x \in LengthStrings :
        (LoremPost(h) /\ pc[h] # "start" /\ WellTyped(req[h].body)
            /\ Sends(req[h].body, "paragraph_length", JStr(x)))
        => /\ Constructed(h)
           /\ w[h].status # StatusBadRequest
           /\ LengthPart(UpstreamPath(h)) =
                 IF x \in LengthWords THEN << x >> ELSE << >>

\* A length outside the four words was sent and the call was entered
\* with a path that has no length segment.
C3_Witness ==
    \E h \in Handlers :
        /\ LoremPost(h) /\ Constructed(h)
        /\ Sends(req[h].body, "paragraph_length", JStr("huge"))
        /\ Sends(req[h].body, "number_of_paragraphs", JInt(5))
        /\ UpstreamPath(h) = << "api", "5" >>

\* The flags a body sets to true.
FlagsSet(b) ==
    {i \in 1..10 : \E j \in Named(b, FlagKeys[i]) : b.members[j].v = JBool(TRUE)}

\* C4: for every subset of the ten flags set to true, the path holds exactly
\* the segments of those flags, each once, in the fixed order, whatever the
\* order of the keys in the object.
C4_FlagSegments ==
    \A h \in Handlers :
        (LoremPost(h) /\ Constructed(h) /\ req[h].body.kind = "object"
            /\ \A i \in 1..10 :
                  Cardinality(Named(req[h].body, FlagKeys[i])) <= 1)
        => FlagPart(UpstreamPath(h)) =
              SelectSeq(FlagWords,
                        LAMBDA x : \E i \in FlagsSet(req[h].body) : FlagWords[i] = x)

\* All ten flags were sent true with prude written first, and the path
\* holds the ten segments from decorate to prude.
C4_Witness ==
    \E h \in Handlers :
        /\ LoremPost(h) /\ Constructed(h)
        /\ Len(req[h].body.members) = 10
        /\ req[h].body.members[1].k = "prude"
        /\ FlagsSet(req[h].body) = 1..10
        /\ UpstreamPath(h) = << "api" >> \o FlagWords

\* Where a segment belongs: the count, the length, a flag.
Rank(x) == IF x \in NumeralSet THEN 1 ELSE IF x \in FlagWordSet THEN 3 ELSE 2

\* C5: in every constructed path the count segment comes before the length
\* segment and both before every flag segment, and two equal requests get
\* the same upstream URL.
C5_SegmentOrder ==
    /\ \A h \in Handlers :
          (LoremPost(h) /\ Constructed(h))
          => LET p == UpstreamPath(h)
             IN  /\ p[1] = "api"
                 /\ Len(CountPart(p)) <= 1
                 /\ Len(LengthPart(p)) <= 1
                 /\ \A i, j \in 2..Len(p) : i < j => Rank(p[i]) <= Rank(p[j])
    /\ \A g, h \in Handlers :
          (req[g] = req[h] /\ Constructed(g) /\ Constructed(h))
          => call[g].url = call[h].url /\ call[g].method = call[h].method

\* Both of two equal requests with a count, a length and flags, the length
\* written before the count, have their URL, the same one.
C5_Witness ==
    \E g, h \in Handlers :
        /\ g # h /\ req[g] = req[h]
        /\ LoremPost(h) /\ Constructed(g) /\ Constructed(h)
        /\ Len(UpstreamPath(h)) >= 5
        /\ Len(req[h].body.members) >= 3
        /\ req[h].body.members[1].k = "prude"
        /\ UpstreamPath(h)[2] = "3"
        /\ UpstreamPath(h)[3] = "long"
        /\ call[g].url = call[h].url

\* C10 as stated: a POST whose body is a syntactically valid JSON object is
\* never rejected because of a field's value, whatever its type: it proceeds
\* to the upstream call.
C10_NeverRejected ==
    \A h \in Handlers :
        (LoremPost(h) /\ pc[h] # "start"
            /\ req[h].body.kind = "object" /\ ValidJSON(req[h].body))
        => w[h].status # StatusBadRequest /\ Constructed(h)

\* C10 amended: a POST whose body is a JSON object in which every known
\* field holds null or a value of the field's JSON type is never rejected:
\* a count outside 1..10, an unknown length and an unknown key do not stop
\* it, and it proceeds to the upstream call.  A field of another type (a
\* string, a bool, a fraction or an integer out of range for the count, a
\* number for the length or for a flag) is answered with 400, without a call.
C10_WellTypedNeverRejected ==
    \A h \in Handlers :
        (LoremPost(h) /\ pc[h] # "start" /\ req[h].body.kind = "object")
        => IF WellTyped(req[h].body)
           THEN w[h].status # StatusBadRequest /\ Constructed(h) /\ ncalls[h] = 1
           ELSE w[h].status = StatusBadRequest /\ ~Constructed(h) /\ ncalls[h] = 0

\* A count above 10 and an unknown length were sent and the upstream call
\* was entered.
C10_Witness ==
    \E h \in Handlers :
        /\ LoremPost(h) /\ pc[h] = "await"
        /\ Sends(req[h].body, "number_of_paragraphs", JInt(MaxCount))
        /\ Sends(req[h].body, "paragraph_length", JStr("huge"))
        /\ UpstreamPath(h) = << "api", "10" >>

---------------------------------------------------------------------------
(* C6..C9: the method guard and the failure responses (Spec).              *)

\* The one method a skill accepts besides OPTIONS, and how its preflight
\* answer must name the two.
Accepted(skill) == IF skill = "lorem" THEN "POST" ELSE "GET"
AllowMethods(skill) == IF skill = "lorem" THEN "POST, OPTIONS" ELSE "GET, OPTIONS"

\* C6: an OPTIONS request to a skill handler is answered with 200, an empty
\* body and the three CORS headers, Access-Control-Allow-Methods naming the
\* skill's method and OPTIONS, and handling ends there with no upstream call.
C6_Preflight ==
    \A h \in Handlers :
        (req[h].method = "OPTIONS" /\ pc[h] # "start")
        => /\ pc[h] = "done"
           /\ w[h].status = StatusOK
           /\ w[h].body = << >>
           /\ w[h].header["Access-Control-Allow-Origin"] = "*"
           /\ w[h].header["Access-Control-Allow-Headers"] = "Content-Type"
           /\ w[h].header["Access-Control-Allow-Methods"] = AllowMethods(req[h].skill)
           /\ ncalls[h] = 0
           /\ call[h].state = "none"

\* An OPTIONS request to the lorem-ipsum handler, with a body that would
\* decode, has been answered.
C6_Witness ==
    \E h \in Handlers :
        /\ req[h].skill = "lorem" /\ req[h].method = "OPTIONS"
        /\ req[h].body.kind = "object"
        /\ pc[h] = "done"
        /\ w[h].status = StatusOK
        /\ w[h].header["Access-Control-Allow-Methods"] = "POST, OPTIONS"

\* C7: a request whose method is neither the skill's accepted method nor
\* OPTIONS is answered with 405, and no upstream call is made for it.
C7_MethodNotAllowed ==
    \A h \in Handlers :
        (req[h].method \notin {Accepted(req[h].skill), "OPTIONS"} /\ pc[h] # "start")
        => /\ pc[h] = "done"
           /\ w[h].status = StatusMethodNotAllowed
           /\ ncalls[h] = 0
           /\ call[h].state = "none"

\* A GET to the lorem-ipsum handler and a POST to the random-user handler
\* are both refused; here the GET has been.
C7_Witness ==
    \E h \in Handlers :
        /\ req[h].skill = "lorem" /\ req[h].method = "GET"
        /\ pc[h] = "done"
        /\ w[h].status = StatusMethodNotAllowed

\* What the handlers say in their failure responses.
Messages ==
    { "Method not allowed", "Invalid request body", "Internal Server Error",
      "Error fetching lorem ipsum", "Error fetching user data",
      "Upstream API error" }

\* C8: every 400, 405 and 500 response of a skill handler is the normalized
\* ErrorResponse: a JSON object {error, message, code} whose code is the
\* status sent, as RespondWithError writes it.
C8_ErrorResponseShape ==
    \A h \in Handlers :
        (pc[h] = "done" /\ w[h].status \in
            {StatusBadRequest, StatusMethodNotAllowed, StatusInternalServerError})
        => \E msg \in Messages :
              w[h].body = RespondWithError(NewWriter, msg, w[h].status).body

\* C9: a POST to the lorem-ipsum handler whose body is not syntactically
\* valid JSON is answered with 400 and makes no upstream call.
C9_InvalidJSONRejected ==
    \A h \in Handlers :
        (LoremPost(h) /\ pc[h] # "start" /\ ~ValidJSON(req[h].body))
        => /\ w[h].status = StatusBadRequest
           /\ ncalls[h] = 0
           /\ call[h].state = "none"

-----------------------------------------------------------------------------
\* One request under fair scheduling: the goroutine that runs the handler is
\* always scheduled again, and the timer of context.WithTimeout fires once its
\* five seconds are over. Nothing is assumed of the upstream or of the caller.

Solo == {1}

Fairness ==
    \A h \in Solo :
        /\ WF_vars(Loripsum(h))
        /\ WF_vars(User(h))
        /\ WF_vars(AfterDo(h))
        /\ WF_vars(Copy(h))
        /\ WF_vars(DeadlineExpires(h))

FairSpec == Init /\ [][Next]_vars /\ Fairness

-----------------------------------------------------------------------------
\* The tests of the handlers package (TestUser, TestLoripsum), run one at a
\* time by the testing package. Each starts a mock server, puts a factory for
\* a client with the mock transport in httpClientCreator, calls its handler
\* with a request and a recorder of its own, and runs its deferred functions
\* when it returns.

MaxTests == 2

TestNames == {"TestUser", "TestLoripsum"}

\* httpClientCreator = func() *http.Client { return client }, where client is
\* &http.Client{Transport: createTransport(mockServer)}
MockFactory(k) == [client |-> Client(0, "mock"), server |-> k]

\* httptest.NewRequest(...) of the test
TestRequest(name) ==
    IF name = "TestUser"
    THEN [skill |-> "user", method |-> "GET", body |-> Body("empty", << >>, FALSE)]
    ELSE [skill |-> "lorem", method |-> "POST",
          body |-> Object(<< Member("number_of_paragraphs", JInt(1)),
                             Member("paragraph_length", JStr("short")) >>)]

\* Mutant: the restore is deferred before the server's Close.
DefersRestoreFirst == << "restore", "mockServer.Close" >>

\* The deferred functions of a test, in the order of their defer statements;
\* they run last in, first out.
Defers == << "mockServer.Close", "restore" >>

\* From the start of a test function to its call of the handler.
TestBegin(name) ==
    /\ test.pc = "none"
    /\ test.run < MaxTests
    /\ test' = [test EXCEPT !.pc = "call", !.name = name, !.run = @ + 1,
                            !.mockServer = test.run + 1,
                            !.originalClient = httpClientCreator,
                            !.deferred = Defers]
    /\ httpClientCreator' = MockFactory(test.run + 1)
    /\ req' = [h \in Solo |-> TestRequest(name)]
    /\ pc' = [h \in Solo |-> "start"]
    /\ params' = [h \in Solo |-> LoripsumParams]
    /\ w' = [h \in Solo |-> NewWriter]
    /\ ctx' = [h \in Solo |-> "none"]
    /\ call' = [h \in Solo |-> NoCall]
    /\ ncalls' = [h \in Solo |-> 0]
    /\ inbound' = [h \in Solo |-> "open"]
    /\ UNCHANGED server

\* The handler has returned: the test looks at the recorder and returns.
TestReturn ==
    /\ test.pc = "call"
    /\ \A h \in Handlers : pc[h] = "done"
    /\ test' = [test EXCEPT !.pc = "deferred"]
    /\ UNCHANGED <<hvars, httpClientCreator, server>>

\* The deferred function registered last runs.
TestDefer ==
    /\ test.pc = "deferred"
    /\ test.deferred # << >>
    /\ LET n == Len(test.deferred)
           f == test.deferred[n]
       IN  /\ test' = [test EXCEPT
                          !.deferred = SubSeq(@, 1, n - 1),
                          !.closed = IF f = "mockServer.Close"
                                     THEN @ \cup {test.mockServer} ELSE @]
           /\ httpClientCreator' =
                  IF f = "restore" THEN test.originalClient ELSE httpClientCreator
    /\ UNCHANGED <<hvars, server>>

\* The test function is over.
TestEnd ==
    /\ test.pc = "deferred"
    /\ test.deferred = << >>
    /\ test' = [test EXCEPT !.pc = "none"]
    /\ UNCHANGED <<hvars, httpClientCreator, server>>

\* Before the first test: no handler has been called yet.
InitTest ==
    /\ req = [h \in Solo |-> TestRequest("TestUser")]
    /\ pc = [h \in Solo |-> "idle"]
    /\ params = [h \in Solo |-> LoripsumParams]
    /\ w = [h \in Solo |-> NewWriter]
    /\ ctx = [h \in Solo |-> "none"]
    /\ call = [h \in Solo |-> NoCall]
    /\ ncalls = [h \in Solo |-> 0]
    /\ inbound = [h \in Solo |-> "open"]
    /\ httpClientCreator = ProductionFactory
    /\ test = NoTest
    /\ server = NoServer

\* The request of httptest.NewRequest has the background context: no caller
\* goes away.
NextTest ==
    \/ \E name \in TestNames : TestBegin(name)
    \/ TestReturn
    \/ TestDefer
    \/ TestEnd
    \/ \E h \in Handlers : Loripsum(h)
    \/ \E h \in Handlers : User(h)
    \/ \E h \in Handlers : UpstreamResponds(h)
    \/ \E h \in Handlers : UpstreamFails(h)
    \/ \E h \in Handlers : DeadlineExpires(h)
    \/ \E h \in Handlers : BodyBreaks(h)
    \/ \E h \in Handlers : AfterDo(h)
    \/ \E h \in Handlers : Copy(h)

SpecTest == InitTest /\ [][NextTest]_vars

-----------------------------------------------------------------------------
\* Two requests served at the same time, each by its own goroutine, in every
\* interleaving (one after the other included). The requests and the upstream's
\* answers are few, and the answers differ in every part, so that an answer
\* that reached the wrong caller would show.

PairRequests ==
    { [skill |-> "lorem", method |-> "POST",
       body |-> Object(<< Member("number_of_paragraphs", JInt(2)),
                          Member("paragraph_length", JStr("short")) >>)],
      [skill |-> "lorem", method |-> "POST", body |-> Body("malformed", << >>, FALSE)],
      [skill |-> "user", method |-> "GET", body |-> Body("empty", << >>, FALSE)],
      [skill |-> "user", method |-> "OPTIONS", body |-> Body("empty", << >>, FALSE)] }

PairAnswers ==
    { Answer(StatusOK, "text/html", << "u1", "u2" >>),
      Answer(StatusOK, "application/json", << "u2" >>),
      Answer(503, "text/html", << "u1" >>) }

PairResponds(h) == Responds(h, PairAnswers)

InitPair ==
    \E r1 \in PairRequests, r2 \in PairRequests :
        InitOf(Twins, [h \in Twins |-> IF h = 1 THEN r1 ELSE r2])

NextPair ==
    \/ \E h \in Handlers : Loripsum(h)
    \/ \E h \in Handlers : User(h)
    \/ \E h \in Handlers : PairResponds(h)
    \/ \E h \in Handlers : UpstreamFails(h)
    \/ \E h \in Handlers : DeadlineExpires(h)
    \/ \E h \in Handlers : ClientCancels(h)
    \/ \E h \in Handlers : BodyBreaks(h)
    \/ \E h \in Handlers : AfterDo(h)
    \/ \E h \in Handlers : Copy(h)

SpecPair == InitPair /\ [][NextPair]_vars

-----------------------------------------------------------------------------
\* The process: main calls run, which registers the routes, reads PORT,
\* configures the http.Server and blocks in ListenAndServe. Requests reach a
\* handler through the ServeMux, and only while the server listens. A path is
\* the sequence of its segments: /random-user is << "random-user" >>, a
\* trailing or doubled slash is an empty segment.

ReadTimeout == 15
WriteTimeout == 15
IdleTimeout == 60

\* Mutant: /_ping answers 204 and no body.
PingResponseNoContent(rw) == WriteHeader(rw, 204)

\* func(w, r) { w.Write([]byte("OK")) }
PingResponse(rw) == Write(rw, << Text("OK") >>)

\* Mutant: /health is routed as well.
RoutesWithHealth ==
    (<< "random-commit-message" >> :> "commit") @@ (<< "random-lorem-ipsum" >> :> "lorem")
        @@ (<< "random-user" >> :> "user") @@ (<< "_ping" >> :> "ping")
        @@ (<< "health" >> :> "user")

\* The four mux.HandleFunc calls: pattern and handler.
Routes ==
    (<< "random-commit-message" >> :> "commit") @@ (<< "random-lorem-ipsum" >> :> "lorem")
        @@ (<< "random-user" >> :> "user") @@ (<< "_ping" >> :> "ping")

\* Mutant: a variable that is set but empty counts as not set.
getEnvOrDefaultNonEmpty(key, defaultValue) ==
    IF server.env[key].value # "" THEN server.env[key].value ELSE defaultValue

getEnvOrDefault(key, defaultValue) ==
    IF server.env[key].exists THEN server.env[key].value ELSE defaultValue

\* Mutant: main exits with status 0 whatever run returned.
ExitStatusZero(err) == 0

\* main: os.Exit(1) when run returned an error; else main returns.
ExitStatus(err) == IF err # "" THEN 1 ELSE 0

\* run, up to its call of ListenAndServe.
Run ==
    /\ server.pc = "main"
    /\ LET port == getEnvOrDefault("PORT", "8080")
       IN  server' = [server EXCEPT
                        !.pc = "listen",
                        !.routes = Routes,
                        !.Addr = ":" \o port,
                        !.ReadTimeout = ReadTimeout,
                        !.WriteTimeout = WriteTimeout,
                        !.IdleTimeout = IdleTimeout,
                        !.log = @ \o << "Starting TestDataBot API server...",
                                        "Server listening on port " \o port >>]
    /\ UNCHANGED <<hvars, httpClientCreator, test>>

\* Addresses no listener can be opened on: the port is no number and no
\* service name.
NoSuchPort == {":abc"}

\* ListenAndServe has opened the listener and serves; run stays in it.
ListenOK ==
    /\ server.pc = "listen"
    /\ server.Addr \notin NoSuchPort
    /\ server' = [server EXCEPT !.pc = "listening"]
    /\ UNCHANGED <<hvars, httpClientCreator, test>>

\* ListenAndServe fails (the port is in use, or there is no such port): run
\* returns the wrapped error, main logs it and exits.
ListenFails ==
    /\ server.pc = "listen"
    /\ \E cause \in {"address already in use", "unknown port"} :
          /\ cause = "unknown port" <=> server.Addr \in NoSuchPort
          /\ LET err == "server error: listen tcp " \o server.Addr \o ": " \o cause
             IN  server' = [server EXCEPT
                              !.pc = "exited",
                              !.log = Append(@, "Error: " \o err),
                              !.exit = ExitStatus(err)]
    /\ UNCHANGED <<hvars, httpClientCreator, test>>

RECURSIVE Resolve(_, _)
\* path.Clean on segments: empty and dot segments go, dot-dot takes one back.
Resolve(stack, rest) ==
    IF rest = << >> THEN stack
    ELSE LET x == Head(rest)
         IN  IF x \in {"", "."} THEN Resolve(stack, Tail(rest))
             ELSE IF x = ".."
             THEN Resolve(IF stack = << >> THEN stack
                          ELSE SubSeq(stack, 1, Len(stack) - 1), Tail(rest))
             ELSE Resolve(Append(stack, x), Tail(rest))

\* The mux's cleanPath: path.Clean, keeping a trailing slash.
CleanPath(p) ==
    LET np == Resolve(<< >>, p)
    IN  IF p # << >> /\ p[Len(p)] = "" /\ np # << >> THEN Append(np, "") ELSE np

\* ServeMux.Handler: a path that is not clean is redirected to its clean
\* form; a pattern without a trailing slash matches its own path only; a path
\* that matches no pattern goes to http.NotFound.
Handler(path) ==
    IF CleanPath(path) # path THEN "redirect"
    ELSE IF path \in DOMAIN server.routes THEN server.routes[path]
    ELSE "notfound"

\* mux.ServeHTTP: the request is handed to the handler of its path.
ServeHTTP(h) ==
    /\ server.pc = "listening"
    /\ pc[h] = "idle"
    /\ req' = [req EXCEPT ![h].skill = Handler(req[h].path)]
    /\ pc' = [pc EXCEPT ![h] = "start"]
    /\ UNCHANGED <<params, w, ctx, call, ncalls, inbound>>
    /\ UNCHANGED tvars

\* The handler of /_ping.
Ping(h) ==
    /\ pc[h] = "start"
    /\ req[h].skill = "ping"
    /\ Return(h, PingResponse(w[h]))
    /\ UNCHANGED <<req, params, ctx, call, ncalls, inbound>>
    /\ UNCHANGED tvars

\* http.NotFound
NotFound(h) ==
    /\ pc[h] = "start"
    /\ req[h].skill = "notfound"
    /\ Return(h, HttpError(w[h], "404 page not found", 404))
    /\ UNCHANGED <<req, params, ctx, call, ncalls, inbound>>
    /\ UNCHANGED tvars

\* http.RedirectHandler(cleaned path, 301)
Redirect(h) ==
    /\ pc[h] = "start"
    /\ req[h].skill = "redirect"
    /\ Return(h, WriteHeader(HeaderSet(w[h], "Location", "clean path"), 301))
    /\ UNCHANGED <<req, params, ctx, call, ncalls, inbound>>
    /\ UNCHANGED tvars

\* What PORT may be: not set, a port, 8080 itself, empty, not a port.
PortSettings ==
    { Lookup(FALSE, ""), Lookup(TRUE, "9090"), Lookup(TRUE, "8080"),
      Lookup(TRUE, ""), Lookup(TRUE, "abc") }

Arrives(method, path, body) ==
    [skill |-> "", method |-> method, path |-> path, body |-> body]

ServerRequests ==
    { Arrives("GET", << "_ping" >>, Body("empty", << >>, FALSE)),
      Arrives("POST", << "_ping" >>, Body("malformed", << >>, FALSE)),
      Arrives("GET", << "random-user" >>, Body("empty", << >>, FALSE)),
      Arrives("POST", << "random-lorem-ipsum" >>,
              Object(<< Member("number_of_paragraphs", JInt(2)) >>)),
      Arrives("GET", << "random-commit-message" >>, Body("empty", << >>, FALSE)),
      Arrives("GET", << "health" >>, Body("empty", << >>, FALSE)),
      Arrives("GET", << >>, Body("empty", << >>, FALSE)),
      Arrives("GET", << "random-user", "" >>, Body("empty", << >>, FALSE)),
      Arrives("GET", << "random-user", "x" >>, Body("empty", << >>, FALSE)),
      Arrives("GET", << "", "random-user" >>, Body("empty", << >>, FALSE)),
      Arrives("GET", << "_ping", "..", "random-user" >>, Body("empty", << >>, FALSE)),
      Arrives("GET", << "_PING" >>, Body("empty", << >>, FALSE)) }

InitServer ==
    \E e \in PortSettings, r1 \in ServerRequests, r2 \in ServerRequests :
        /\ req = [h \in Twins |-> IF h = 1 THEN r1 ELSE r2]
        /\ pc = [h \in Twins |-> "idle"]
        /\ params = [h \in Twins |-> LoripsumParams]
        /\ w = [h \in Twins |-> NewWriter]
        /\ ctx = [h \in Twins |-> "none"]
        /\ call = [h \in Twins |-> NoCall]
        /\ ncalls = [h \in Twins |-> 0]
        /\ inbound = [h \in Twins |-> "open"]
        /\ httpClientCreator = ProductionFactory
        /\ test = NoTest
        /\ server = [NoServer EXCEPT !.pc = "main", !.env = [PORT |-> e]]

NextServer ==
    \/ Run
    \/ ListenOK
    \/ ListenFails
    \/ \E h \in Handlers : ServeHTTP(h)
    \/ \E h \in Handlers : Ping(h)
    \/ \E h \in Handlers : NotFound(h)
    \/ \E h \in Handlers : Redirect(h)
    \/ \E h \in Handlers : Loripsum(h)
    \/ \E h \in Handlers : User(h)
    \/ \E h \in Handlers : PairResponds(h)
    \/ \E h \in Handlers : UpstreamFails(h)
    \/ \E h \in Handlers : DeadlineExpires(h)
    \/ \E h \in Handlers : ClientCancels(h)
    \/ \E h \in Handlers : BodyBreaks(h)
    \/ \E h \in Handlers : AfterDo(h)
    \/ \E h \in Handlers : Copy(h)

SpecServer == InitServer /\ [][NextServer]_vars

-----------------------------------------------------------------------------
\* The health handler, called as it is with any request. Its JSON object
\* (status, version, timestamp, uptime, Go version, memory) is one chunk of
\* the body.

HealthStatus ==
    [json |-> TRUE, text |-> "status ok", error |-> "", message |-> "", code |-> 0]

\* Health: the header and the 200 are written before the object is encoded;
\* json.NewEncoder(w).Encode(status) succeeds or returns an error.
Health(h) ==
    /\ pc[h] = "start"
    /\ req[h].skill = "health"
    /\ LET rw == WriteHeader(HeaderSet(w[h], "Content-Type", "application/json"),
                             StatusOK)
       IN  \E encoded \in BOOLEAN :
              Return(h, IF encoded
                        THEN Write(rw, << HealthStatus >>)
                        ELSE HttpError(rw, "Internal server error",
                                       StatusInternalServerError))
    /\ UNCHANGED <<req, params, ctx, call, ncalls, inbound>>
    /\ UNCHANGED tvars

HealthRequests ==
    { [skill |-> "health", method |-> m, body |-> b] : m \in Methods, b \in SmallBodies }

InitHealth == \E r \in HealthRequests : InitOf(Solo, [h \in Solo |-> r])

NextHealth ==
    \/ \E h \in Handlers : Health(h)
    \/ \E h \in Handlers : ClientCancels(h)

SpecHealth == InitHealth /\ [][NextHealth]_vars

-----------------------------------------------------------------------------
\* Relaying the upstream's answer (specification Spec).

\* The places of the caller's response body that hold bytes of the upstream body.
UpstreamBytes(h) == {i \in 1..Len(w[h].body) : w[h].body[i].text \in Chunks}

\* The headers of a plain-text error response, and no other header.
ErrorHeader ==
    [n \in HeaderNames |->
        IF n = "Content-Type" THEN "text/plain; charset=utf-8"
        ELSE IF n = "X-Content-Type-Options" THEN "nosniff" ELSE ""]

\* The gateway's own message for a call that failed, by skill.
FetchMessage(skill) ==
    IF skill = "lorem" THEN "Error fetching lorem ipsum" ELSE "Error fetching user data"

\* The skill's fixed content type.
FixedType(skill) ==
    IF skill = "lorem" THEN "text/html; charset=utf-8" ELSE "application/json"

\* The upstream body as the caller should see it.
Relayed(b) == [i \in 1..Len(b) |-> Text(b[i])]

\* client.Do returned an answer with a status other than 200.
AnsweredNot200(h) ==
    /\ pc[h] = "done"
    /\ call[h].state = "responded"
    /\ call[h].status # StatusOK

\* C11: when the upstream answers a skill's call with a status other than 200,
\* the caller gets status 500 and the gateway's generic message, the same for
\* every upstream status, body and content type: no byte of the upstream body
\* and no upstream header is in the response, and its status is the gateway's
\* 500, not a copy of the upstream's.
C11_UpstreamErrorHidden ==
    \A h \in Handlers :
        AnsweredNot200(h)
        => /\ w[h].status = StatusInternalServerError
           /\ w[h].body = << Text("Upstream API error"), Text("\n") >>
           /\ UpstreamBytes(h) = {}
           /\ w[h].header = ErrorHeader
           /\ \A n \in HeaderNames : w[h].header[n] # call[h].ctype

\* The upstream answered 404 with a two-chunk body and the caller got the 500.
C11_Witness ==
    \E h \in Handlers :
        /\ AnsweredNot200(h)
        /\ call[h].status = 404
        /\ Len(call[h].body) = 2
        /\ w[h].status = StatusInternalServerError

\* client.Do returned an error: the transport failed, or the context of the
\* call was done before the upstream's status arrived.
DoFailed(h) == pc[h] = "done" /\ call[h].state \in {"error", "aborted"}

\* C12: when the upstream call fails by transport error or because the deadline
\* expires while the handler waits for the upstream, the call is cancelled (it is
\* no longer in flight once the deadline has expired, and its context is done
\* when the handler has returned) and the caller gets status 500; the response
\* after a deadline expiry is the response after a transport error: the same
\* status, headers and body, fixed by the skill alone.
C12_FetchFailure ==
    \A h \in Handlers :
        /\ ctx[h] = "deadline" => call[h].state # "inflight"
        /\ DoFailed(h)
           => /\ ctx[h] # "live"
              /\ w[h].status = StatusInternalServerError
              /\ w[h].header = ErrorHeader
              /\ w[h].body = << Text(FetchMessage(req[h].skill)), Text("\n") >>

\* The deadline expired on a call in flight and the caller got the 500.
C12_Witness ==
    \E h \in Handlers :
        /\ DoFailed(h)
        /\ ctx[h] = "deadline"
        /\ call[h].state = "aborted"
        /\ w[h].status = StatusInternalServerError

\* The upstream call failed: client.Do failed, or the body broke off or the
\* deadline expired before the whole body was read.
CallFailed(h) ==
    /\ pc[h] = "done"
    /\ \/ call[h].state \in {"error", "aborted", "broken"}
       \/ call[h].state = "responded" /\ call[h].status = StatusOK
          /\ call[h].read < Len(call[h].body)

\* C13: if the upstream call fails at any point, also after its 200 status has
\* arrived and while the body is being transferred, the caller gets status 500
\* and no byte of the upstream body.
C13_NoPartialBody ==
    \A h \in Handlers :
        CallFailed(h)
        => /\ w[h].status = StatusInternalServerError
           /\ UpstreamBytes(h) = {}

\* The whole body of a 200 answer has been read and the handler has returned.
Relay200(h) ==
    /\ pc[h] = "done"
    /\ call[h].state = "responded"
    /\ call[h].status = StatusOK
    /\ call[h].read = Len(call[h].body)

\* What the caller is owed after a 200 answer.
RelayedAs200(h) ==
    /\ w[h].status = StatusOK
    /\ w[h].header["Access-Control-Allow-Origin"] = "*"
    /\ w[h].header["Content-Type"] = FixedType(req[h].skill)
    /\ w[h].body = Relayed(call[h].body)

C19_CancelPropagates ==
    \A h \in Handlers :
        inbound[h] = "gone"
        => /\ call[h].state # "inflight"
           /\ ctx[h] # "live"
           /\ call[h].state = "aborted" => call[h].status = 0 /\ call[h].body = << >>

\* The caller went away while the handler was waiting in client.Do: the call
\* is aborted and the handler has not yet returned.
C19_Witness ==
    \E h \in Handlers :
        /\ inbound[h] = "gone"
        /\ pc[h] = "await"
        /\ ncalls[h] = 1
        /\ call[h].state = "aborted"
        /\ ctx[h] = "canceled"

-----------------------------------------------------------------------------
\* Progress (specification FairSpec).

\* The handler has returned and the response has its status line.
Answered(h) == pc[h] = "done" /\ w[h].wroteHeader

\* C15: every request eventually gets a response, whatever the upstream does
\* (answers 200, answers something else, fails, never answers), and exactly
\* one: once the handler has returned, the response never changes again, and a
\* status line that was sent is never replaced.
C15_EventuallyOneResponse ==
    /\ <>(\A h \in Handlers : Answered(h))
    /\ [][\A h \in Handlers :
            /\ pc[h] = "done" => w'[h] = w[h]
            /\ w[h].wroteHeader => w'[h].status = w[h].status]_vars

\* The upstream never answered, the deadline ended the call and the caller has
\* its response.
C15_Witness ==
    \E h \in Handlers :
        /\ Answered(h)
        /\ call[h].state = "aborted"
        /\ call[h].status = 0
        /\ ctx[h] = "deadline"
        /\ inbound[h] = "open"

-----------------------------------------------------------------------------
\* Requests side by side (specification SpecPair).

\* The request has the skill's method and a body the skill takes.
PassesGuards(h) ==
    /\ req[h].method = Accepted(req[h].skill)
    /\ req[h].skill = "lorem"
       => /\ req[h].body.kind \in {"object", "null"}
          /\ WellTyped(req[h].body)

\* C16: a request causes at most one upstream call, whatever becomes of the
\* call, and once the handler is past its guards exactly one if the request
\* has the skill's method and a valid body, and none otherwise; a request
\* makes its own call also when the same request has been answered before.
C16_OneCallPerRequest ==
    \A h \in Handlers :
        /\ ncalls[h] <= 1
        /\ pc[h] # "start"
           => /\ PassesGuards(h) => ncalls[h] = 1 /\ Constructed(h)
              /\ ~PassesGuards(h) => ncalls[h] = 0 /\ ~Constructed(h)

\* Two equal requests have been answered: the call of the first failed and was
\* not repeated, the second made a call of its own and relayed its answer whole.
C16_Witness ==
    /\ req[1] = req[2]
    /\ PassesGuards(1)
    /\ pc[1] = "done" /\ call[1].state = "error" /\ ncalls[1] = 1
    /\ pc[2] = "done" /\ call[2].state = "responded" /\ ncalls[2] = 1
    /\ call[2].read = Len(call[2].body)

\* The response that a request and the outcome of its own call stand for.
ErrorWriter(msg, code) ==
    [wroteHeader |-> TRUE, status |-> code, header |-> ErrorHeader,
     body |-> << Text(msg), Text("\n") >>]

PreflightWriter(skill) ==
    [wroteHeader |-> TRUE, status |-> StatusOK, body |-> << >>,
     header |-> [n \in HeaderNames |->
                    IF n = "Access-Control-Allow-Origin" THEN "*"
                    ELSE IF n = "Access-Control-Allow-Methods" THEN AllowMethods(skill)
                    ELSE IF n = "Access-Control-Allow-Headers" THEN "Content-Type"
                    ELSE ""]]

RelayWriter(skill, c) ==
    [wroteHeader |-> TRUE, status |-> StatusOK,
     header |-> [n \in HeaderNames |->
                    IF n = "Access-Control-Allow-Origin" THEN "*"
                    ELSE IF n = "Content-Type" THEN FixedType(skill) ELSE ""],
     body |-> Relayed(SubSeq(c.body, 1, c.read))]

ResponseFor(rq, c) ==
    IF rq.method = "OPTIONS" THEN PreflightWriter(rq.skill)
    ELSE IF rq.method # Accepted(rq.skill)
    THEN ErrorWriter("Method not allowed", StatusMethodNotAllowed)
    ELSE IF c.state = "none" THEN ErrorWriter("Invalid request body", StatusBadRequest)
    ELSE IF c.state \in {"error", "aborted"}
    THEN ErrorWriter(FetchMessage(rq.skill), StatusInternalServerError)
    ELSE IF c.status # StatusOK
    THEN ErrorWriter("Upstream API error", StatusInternalServerError)
    ELSE RelayWriter(rq.skill, c)

\* C20: two requests handled at the same time do not affect each other: in
\* every interleaving the response to each is the one that its own request
\* and the outcome of its own upstream call stand for, and two equal requests
\* whose calls ended alike have equal responses.
C20_Independent ==
    /\ \A h \in Handlers : pc[h] = "done" => w[h] = ResponseFor(req[h], call[h])
    /\ \A g, h \in Handlers :
          (pc[g] = "done" /\ pc[h] = "done" /\ req[g] = req[h] /\ call[g] = call[h])
          => w[g] = w[h]

\* Both requests got a 200 from the upstream, with different bodies, and each
\* caller has the body of its own call.
C20_Witness ==
    /\ pc[1] = "done" /\ pc[2] = "done"
    /\ call[1].status = StatusOK /\ call[2].status = StatusOK
    /\ call[1].body = << "u1", "u2" >> /\ call[2].body = << "u2" >>
    /\ call[1].read = 2 /\ call[2].read = 1
    /\ w[1].body = Relayed(call[1].body)
    /\ w[2].body = Relayed(call[2].body)

-----------------------------------------------------------------------------
\* The client factory and the tests that swap it (specification SpecTest).

\* A test has put its factory in place and its handler is at work.
UnderTest(h) == test.pc = "call" /\ Constructed(h)

\* C17: the handlers get the client of their upstream call from
\* httpClientCreator, so that once a test has put a factory with the mock
\* transport there, every call of the handler under test is made with that
\* factory's client, through the mock transport, and none through the default
\* transport to the real upstream.
C17_ClientFromFactory ==
    \A h \in Handlers :
        UnderTest(h)
        => /\ call[h].client = httpClientCreator.client
           /\ call[h].client.transport = "mock"

\* No test is running.
BetweenTests == test.pc = "none"

\* C18: when the tests run one at a time, each has saved the factory that was
\* there before it put its own in place, and that one is the production
\* factory; between tests, after any number of them, httpClientCreator is the
\* production factory again; and httpClientCreator never holds the factory of
\* a mock server that has been closed.
C18_FactoryRestored ==
    /\ BetweenTests => httpClientCreator = ProductionFactory
    /\ ~BetweenTests
       => /\ test.originalClient = ProductionFactory
          /\ httpClientCreator \in {ProductionFactory, MockFactory(test.mockServer)}
    /\ httpClientCreator.server \notin test.closed

\* MaxTests tests have run, each has closed its server, and the factory is the
\* production one.
C18_Witness ==
    /\ BetweenTests
    /\ test.run = MaxTests
    /\ test.closed = 1..MaxTests
    /\ httpClientCreator = ProductionFactory
    /\ \E h \in Handlers : pc[h] = "done"

-----------------------------------------------------------------------------
\* What a handler leaves behind, and the order of its checks (specification
\* Spec; the upstream URL under SpecURL).

\* The handler has returned after it had started an upstream call.
ReturnedAfterCall(h) == pc[h] = "done" /\ Constructed(h)

\* C26: on every path by which a handler returns after it has started an
\* upstream call, the deadline context of the request is done (cancelled or
\* expired), the call is no longer in flight, and the body of an upstream
\* response that was received has been closed.
C26_NothingOutlives ==
    \A h \in Handlers :
        ReturnedAfterCall(h)
        => /\ ctx[h] \in {"canceled", "deadline"}
           /\ call[h].state # "inflight"
           /\ call[h].state \in {"responded", "broken"} => call[h].closed

\* The upstream body broke off during the copy: the handler has returned,
\* the context is cancelled and the body closed.
C26_Witness ==
    \E h \in Handlers :
        /\ ReturnedAfterCall(h)
        /\ call[h].state = "broken"
        /\ call[h].read < Len(call[h].body)
        /\ call[h].closed
        /\ ctx[h] = "canceled"

\* C27: in the lorem-ipsum handler the method guard comes before the body: a
\* method that is neither POST nor OPTIONS gets 405 whatever the body, OPTIONS
\* gets the empty 200 whatever the body, neither decodes the body or starts a
\* call, and only a POST is answered with 400.
C27_GuardBeforeBody ==
    \A h \in Handlers :
        (req[h].skill = "lorem" /\ pc[h] # "start")
        => /\ req[h].method \notin {"POST", "OPTIONS"}
              => /\ pc[h] = "done"
                 /\ w[h].status = StatusMethodNotAllowed
                 /\ params[h] = LoripsumParams
                 /\ ~Constructed(h)
           /\ req[h].method = "OPTIONS"
              => /\ pc[h] = "done"
                 /\ w[h].status = StatusOK
                 /\ w[h].body = << >>
                 /\ params[h] = LoripsumParams
                 /\ ~Constructed(h)
           /\ w[h].status = StatusBadRequest => req[h].method = "POST"

\* A PUT with a body that is not JSON was answered by its method alone.
C27_Witness ==
    \E h \in Handlers :
        /\ req[h].skill = "lorem"
        /\ req[h].method = "PUT"
        /\ req[h].body.kind = "malformed"
        /\ pc[h] = "done"
        /\ w[h].status = StatusMethodNotAllowed

\* A POST to the lorem-ipsum handler with nothing in its body.
EmptyPost(h) == LoremPost(h) /\ req[h].body.kind = "empty"

\* C28: a POST to the lorem-ipsum handler with an empty or absent body is
\* answered with 400 and the message of a malformed body, and makes no
\* upstream call: it is not taken as a request with every option at its
\* default.
C28_EmptyBodyRejected ==
    \A h \in Handlers :
        (EmptyPost(h) /\ pc[h] # "start")
        => /\ pc[h] = "done"
           /\ w[h].status = StatusBadRequest
           /\ w[h].header = ErrorHeader
           /\ w[h].body = << Text("Invalid request body"), Text("\n") >>
           /\ ncalls[h] = 0
           /\ ~Constructed(h)

\* The empty POST has its 400.
C28_Witness ==
    \E h \in Handlers :
        /\ EmptyPost(h)
        /\ pc[h] = "done"
        /\ w[h].status = StatusBadRequest
        /\ ncalls[h] = 0

\* The words an upstream path is made of after api.
Vocabulary == NumeralSet \cup LengthWords \cup FlagWordSet

\* C29: every upstream URL the lorem-ipsum handler constructs has the host
\* loripsum.net and a path that starts with api and goes on with words of the
\* fixed vocabulary only: no string of the caller's that is outside it is in
\* the path.
C29_PathVocabulary ==
    \A h \in Handlers :
        (req[h].skill = "lorem" /\ Constructed(h))
        => /\ call[h].url.scheme = "https"
           /\ call[h].url.host = "loripsum.net"
           /\ Len(UpstreamPath(h)) >= 1
           /\ UpstreamPath(h)[1] = "api"
           /\ \A i \in 2..Len(UpstreamPath(h)) : UpstreamPath(h)[i] \in Vocabulary

\* The caller sent a length word of its own next to other options: the path
\* has the others and not the word.
C29_Witness ==
    \E h \in Handlers :
        /\ LoremPost(h) /\ Constructed(h)
        /\ \E i \in 1..Len(req[h].body.members) :
              /\ EqualFold(req[h].body.members[i].k) = "paragraph_length"
              /\ req[h].body.members[i].v.t = "string"
              /\ req[h].body.members[i].v.s \notin Vocabulary \cup {""}
        /\ Len(UpstreamPath(h)) >= 2
        /\ \A i \in 2..Len(UpstreamPath(h)) : UpstreamPath(h)[i] \in Vocabulary

\* The header that opens a response to other origins.
AllowOrigin(h) == w[h].header["Access-Control-Allow-Origin"]

\* The handler answered a preflight, or relays a 200 of the upstream.
PreflightOrSuccess(h) ==
    \/ req[h].method = "OPTIONS" /\ w[h].status = StatusOK /\ ~Constructed(h)
    \/ /\ req[h].method = Accepted(req[h].skill)
       /\ w[h].status = StatusOK
       /\ call[h].status = StatusOK

\* C30: a skill handler sets Access-Control-Allow-Origin: * on the preflight
\* response and on the 200 success response, and on no other: no 400, 405 or
\* 500 response has the header.
C30_AllowOriginOnlyOn200 ==
    \A h \in Handlers :
        pc[h] = "done"
        => /\ AllowOrigin(h) \in {"", "*"}
           /\ AllowOrigin(h) = "*" <=> PreflightOrSuccess(h)
           /\ w[h].status \in {StatusBadRequest, StatusMethodNotAllowed,
                               StatusInternalServerError}
              => AllowOrigin(h) = ""

\* A 500 after the upstream's 503 went out without the header.
C30_Witness ==
    \E h \in Handlers :
        /\ pc[h] = "done"
        /\ call[h].state = "responded" /\ call[h].status = 503
        /\ w[h].status = StatusInternalServerError
        /\ AllowOrigin(h) = ""

-----------------------------------------------------------------------------
\* The router and the process (specification SpecServer).

\* The request has been handed to a handler by the mux.
Dispatched(h) == pc[h] # "idle"

\* The handlers that make upstream calls.
SkillHandlers == {"commit", "lorem", "user"}

\* C21: a request to /_ping, of any method and with any body, is answered with
\* status 200 and the body OK, whatever the upstream does and whatever the
\* other request is and wherever its handling stands; it makes no upstream
\* call and never waits for one.
C21_PingAlwaysOK ==
    \A h \in Handlers :
        (req[h].path = << "_ping" >> /\ Dispatched(h))
        => /\ pc[h] \in {"start", "done"}
           /\ ncalls[h] = 0
           /\ ~Constructed(h)
           /\ pc[h] = "done"
              => /\ w[h].status = StatusOK
                 /\ w[h].body = << Text("OK") >>

\* The ping has its OK while the other request waits for an upstream that
\* has not answered.
C21_Witness ==
    /\ req[1].path = << "_ping" >>
    /\ pc[1] = "done"
    /\ w[1].status = StatusOK
    /\ w[1].body = << Text("OK") >>
    /\ pc[2] = "await"
    /\ call[2].state = "inflight"

\* The four paths of the claim and the handler of each.
BoundTo(path) ==
    IF path = << "random-commit-message" >> THEN "commit"
    ELSE IF path = << "random-lorem-ipsum" >> THEN "lorem"
    ELSE IF path = << "random-user" >> THEN "user"
    ELSE IF path = << "_ping" >> THEN "ping"
    ELSE "none"

\* C22: the router binds four paths, /random-commit-message,
\* /random-lorem-ipsum, /random-user and /_ping, each to its own handler; a
\* request to any other path is handed to no skill handler (nor to the ping
\* handler) and makes no upstream call.
C22_FourRoutes ==
    /\ server.pc \in {"listen", "listening"}
       => /\ Cardinality(DOMAIN server.routes) = 4
          /\ \A p \in DOMAIN server.routes : server.routes[p] = BoundTo(p)
    /\ \A h \in Handlers :
          Dispatched(h)
          => IF BoundTo(req[h].path) # "none"
             THEN req[h].skill = BoundTo(req[h].path)
             ELSE /\ req[h].skill \notin SkillHandlers \cup {"ping"}
                  /\ ncalls[h] = 0
                  /\ ~Constructed(h)

\* A request to /random-user/x was answered 404 with no call, next to one to
\* /random-user, which went to its handler and made its call.
C22_Witness ==
    /\ req[1].path = << "random-user", "x" >>
    /\ pc[1] = "done"
    /\ w[1].status = 404
    /\ ncalls[1] = 0
    /\ req[2].path = << "random-user" >>
    /\ req[2].skill = "user"
    /\ ncalls[2] = 1

\* run has configured the server.
Configured == server.pc \in {"listen", "listening", "exited"}

\* C23: the server is configured for, and when it listens listens on, the port
\* that PORT holds when PORT is set, and 8080 when it is not set, with read and
\* write timeouts of 15 seconds and an idle timeout of 60 seconds.
C23_PortAndTimeouts ==
    Configured
    => /\ server.env["PORT"].exists => server.Addr = ":" \o server.env["PORT"].value
       /\ ~server.env["PORT"].exists => server.Addr = ":8080"
       /\ server.ReadTimeout = 15
       /\ server.WriteTimeout = 15
       /\ server.IdleTimeout = 60

\* With PORT=9090 the server listens on :9090 and serves a request.
C23_Witness ==
    /\ server.pc = "listening"
    /\ server.env["PORT"] = Lookup(TRUE, "9090")
    /\ server.Addr = ":9090"
    /\ server.IdleTimeout = 60
    /\ \E h \in Handlers : pc[h] = "done"

\* The line main logs for a listener that did not start.
StartupError(cause) ==
    "Error: server error: listen tcp " \o server.Addr \o ": " \o cause

\* C24: when the listener fails to start, the cause is logged and the process
\* exits with a status that is not 0; no exit has status 0, and no request is
\* handled without a listener.
C24_StartupFailureFatal ==
    /\ server.pc = "exited"
       => /\ server.exit = 1
          /\ Len(server.log) >= 1
          /\ \E cause \in {"address already in use", "unknown port"} :
                server.log[Len(server.log)] = StartupError(cause)
    /\ server.exit # 0
    /\ \A h \in Handlers : Dispatched(h) => server.pc = "listening"

\* Port 8080 was in use: the process has logged that and exited with 1, and
\* no request was handled.
C24_Witness ==
    /\ server.pc = "exited"
    /\ server.Addr = ":8080"
    /\ ~server.env["PORT"].exists
    /\ server.log[Len(server.log)] = StartupError("address already in use")
    /\ server.exit = 1
    /\ \A h \in Handlers : ~Dispatched(h)

-----------------------------------------------------------------------------
\* The health handler (specification SpecHealth).

\* The handler took its error branch: the body is the error message and not
\* the health object.
EncodingFailed(h) ==
    w[h].body = << Text("Internal server error"), Text("\n") >>

\* C25: the health handler answers every request with status 200 and the JSON
\* health object, except when encoding the object fails: then the status the
\* caller receives is 500.
C25_EncodingErrorIs500 ==
    \A h \in Handlers :
        (req[h].skill = "health" /\ pc[h] = "done")
        => IF EncodingFailed(h)
           THEN w[h].status = StatusInternalServerError
           ELSE /\ w[h].status = StatusOK
                /\ w[h].header["Content-Type"] = "application/json"
                /\ w[h].body = << HealthStatus >>

=============================================================================
